---- MODULE Spec2Model ----
(***************************************************************************)
(* A model of the WebPageTest agent's test-execution core:                 *)
(*   - WPTAgent.run_testing / run_single_test / signal_handler             *)
(*     (src/wptagent.py), the job -> task run loop;                        *)
(*   - DevtoolsBrowser (src/internal/devtools_browser.py), the script      *)
(*     interpreter and artifact collector.                                 *)
(* Positions (pc, rpc, bpc) are named after the source line a step is at.  *)
(* Every call of a collaborator is one step; an interrupt may be delivered *)
(* between any two steps.                                                  *)
(***************************************************************************)
EXTENDS Integers, Sequences, FiniteSets, TLC

\* ------------------------------------------------------------------ bounds
MaxJobs == 2       \* jobs the server hands out before get_test only returns None
MaxTasks == 2      \* tasks the server hands out per job
MaxLen == 2        \* commands in a task's script
MaxLimit == 2      \* largest task['time_limit'], in clock ticks
MaxDelay == 2      \* longest wait_for_page_load, in clock ticks

None == "None"

\* ------------------------------------------------------------------ state
VARIABLES
  \* WPTAgent (src/wptagent.py)
  must_exit,      \* self.must_exit
  job,            \* self.job: None or a Job
  task,           \* self.task: None or a Task
  options_exit,   \* self.options.exit (minutes, 0 = no run-time budget)
  options_alive,  \* self.options.alive: a watchdog file is configured
  pc,             \* position in run_testing
  rpc,            \* position in run_single_test, "none" outside it
  ret,            \* where run_single_test returns to in run_testing
  browser,        \* run_single_test's local 'browser'
  proc,           \* "running" | "returned" | "exited" (exit(1)) | "crashed"
  launched,       \* a browser was launched and not yet stopped
  shaped,         \* traffic shaping is configured and not yet reset
  \* history of the agent's run, read by the properties only
  calls,          \* collaborator calls of the current run attempt, in order
  attempt,        \* "none" | "active" | "left": the last run attempt
  uploads,        \* upload_task_result calls for the current task
  njobs,          \* jobs handed out by get_test
  jtasks,         \* tasks handed out for the current job
  err_at_gate,    \* task['error'] when line 65 was evaluated, else "unreached"
  notified,       \* running_another_test for this task: "no" | "returned" | "raised"
  lh_runs,        \* run_single_test calls with running_lighthouse, current task
  std_runs,       \* run_single_test calls without it, current task
  signals,        \* interrupts delivered (0, 1, 2)
  exit_in_task,   \* must_exit was set by an interrupt while a task was running
  fetched_after,  \* "none" | "get_task" | "get_test": work fetched after that
  exc_seen,       \* site of the last exception raised, "none" if none
  exit_reason,    \* why run_testing returned
  refreshed,      \* alive() touched the watchdog file in the current iteration
                  \* of run_testing's outer loop
  \* DevtoolsBrowser (src/internal/devtools_browser.py)
  devtools,       \* self.devtools: None or "session"
  bjob,           \* self.job: the options the browser reads
  script,         \* task['script']
  time_limit,     \* task['time_limit'], in clock ticks
  task_error,     \* task['error']
  bpc,            \* position in a DevtoolsBrowser method, "idle" outside
  command,        \* run_task's local 'command'
  now,            \* monotonic.monotonic(), in clock ticks
  end_time,       \* run_task's local 'end_time'
  files,          \* artifact kind -> number of times the file was written
  metrics,        \* the custom_metrics mapping last written
  \* history of the browser's run, read by the properties only
  trace,          \* the calls run_task made, in order
  orig_script,    \* task['script'] as the task was created
  rt_start,       \* the clock when run_task was entered
  iterations,     \* iterations of run_task's loop
  ran,            \* run_task on this task: "no" | "running" | "done", or
                  \* "skipped" when it returned at once for want of a session
  \* collect_browser_metrics' locals, as the call that has just returned left
  \* them ("unset" at any other time)
  user_timing,    \* what run_js_file('user_timing.js') returned
  page_data,      \* what run_js_file('page_data.js') returned
  \* DevtoolsBrowser's session and preparation
  bopts,          \* self.job: the entries prepare_browser reads
  returned,       \* the last call of connect, disconnect, prepare_browser or
                  \* navigate: the method and what it returned or raised
  sent,           \* the calls that call made on self.devtools, in order
  dropped,        \* the call that has just ended let go of an open session
                  \* without close()
  navigator_ua    \* what that call read from navigator.userAgent, if it did

agentVars == <<must_exit, job, task, options_exit, options_alive, pc, rpc, ret, browser, proc,
               launched, shaped>>
histVars == <<calls, attempt, uploads, njobs, jtasks, err_at_gate,
              notified, lh_runs, std_runs, signals, exit_in_task,
              fetched_after, exc_seen, exit_reason, refreshed>>
browserVars == <<devtools, bjob, script, time_limit, task_error, bpc, command,
                 now, end_time, files, metrics>>
bhistVars == <<trace, orig_script, rt_start, iterations, ran>>
collectVars == <<user_timing, page_data>>
sessVars == <<bopts, returned, sent, dropped, navigator_ua>>
bvars == <<browserVars, bhistVars, collectVars, sessVars>>
avars == <<agentVars, histVars>>
vars == <<avars, bvars>>

\* ------------------------------------------------------------- data model
JobTypes == {"standard", "lighthouse"}
\* 'lighthouse' in self.job and self.job['lighthouse']: absent, falsy, truthy
Jobs == [type : JobTypes, lighthouse : {"absent", "false", "true"},
         fvonly : BOOLEAN]

ErrInvalidBrowser == "Invalid browser"
ErrShaping == "Error configuring traffic-shaping"
ErrTestRun == "Unhandled exception in test run"
ErrRunning == "Unhandled exception running test"
ErrPreparing == "Unhandled exception preparing test"
ErrBrowser == "browser error"

\* self.job is None, self.task is None
NoJob == [type |-> "None", lighthouse |-> "absent", fvonly |-> FALSE]

NoTask ==
  [run |-> 0, cached |-> FALSE, error |-> None, running_lighthouse |-> FALSE]

NewTask(run, cached) ==
  [run |-> run, cached |-> cached, error |-> None,
   running_lighthouse |-> FALSE]

\* ---------------------------------------------------------- run_testing
\* a loop that never looks at the flag
KeepLoopingAlways(flag) == TRUE

\* while not self.must_exit
KeepLooping(flag) == ~flag

\* a condition that forgets the cache state
LighthouseGateIgnoresCache(t, j) ==
  /\ t.run = 1
  /\ t.error = None
  /\ j.lighthouse = "true"

\* the secondary (Lighthouse) run's condition
LighthouseGate(t, j) ==
  /\ t.run = 1
  /\ ~t.cached
  /\ t.error = None
  /\ j.lighthouse = "true"

\* the calls made inside the inner try (lines 61-72) and inside the outer
\* try (lines 46-87) of run_testing
InnerTry == {"run_single_test", "running_another_test"}

\* an upload left outside the try
OuterTryWithoutUpload == {"is_ready", "get_test", "get_task"}

OuterTry == {"is_ready", "get_test", "get_task", "upload_task_result"}

InTask == pc \in {"L62", "L64", "L65", "L69", "L70", "L81"}

\* WPTAgent.__init__ (lines 18-37)
AgentInit ==
  /\ must_exit = FALSE
  /\ job = NoJob
  /\ task = NoTask
  /\ pc = "L45"
  /\ rpc = "none"
  /\ ret = "none"
  /\ browser = None
  /\ proc = "running"
  /\ launched = FALSE
  /\ shaped = FALSE
  /\ calls = <<>>
  /\ attempt = "none"
  /\ uploads = 0
  /\ njobs = 0
  /\ jtasks = 0
  /\ err_at_gate = "unreached"
  /\ notified = "no"
  /\ lh_runs = 0
  /\ std_runs = 0
  /\ signals = 0
  /\ exit_in_task = FALSE
  /\ fetched_after = "none"
  /\ exc_seen = "none"
  /\ exit_reason = "none"
  /\ refreshed = FALSE

\* handlers that record nothing on the task
CatchForgetsError(site, t) ==
  IF site \in InnerTry
  THEN [pc |-> "L81", proc |-> "running", task |-> t]
  ELSE [pc |-> "L100", proc |-> "running", task |-> t]

\* a handler of the inner try that also skips the upload of line 81
CatchSkipsUpload(site, t) ==
  IF site \in InnerTry
  THEN [pc |-> "L83", proc |-> "running",
        task |-> [t EXCEPT !.error = ErrRunning]]
  ELSE [pc |-> "L100", proc |-> "running",
        task |-> IF t # NoTask THEN [t EXCEPT !.error = ErrPreparing] ELSE t]

\* an exception raised at 'site' with self.task = t: the handler that catches
\* it (lines 73-80 or 88-99) and where control goes next
Catch(site, t) ==
  IF site \in InnerTry
  THEN [pc |-> "L81", proc |-> "running",
        task |-> [t EXCEPT !.error = ErrRunning]]
  ELSE IF site \in OuterTry
  THEN [pc |-> "L100", proc |-> "running",
        task |-> IF t # NoTask THEN [t EXCEPT !.error = ErrPreparing] ELSE t]
  ELSE [pc |-> "end", proc |-> "crashed", task |-> t]

\* the exception leaves run_single_test (if raised there) and is handled
Raise(site) ==
  /\ pc' = Catch(site, task).pc
  /\ proc' = Catch(site, task).proc
  /\ task' = Catch(site, task).task
  /\ rpc' = "none"
  /\ ret' = "none"
  /\ browser' = None
  /\ attempt' = IF rpc # "none" THEN "left" ELSE attempt
  /\ exc_seen' = site

Running == proc = "running"

\* the history of one task starts afresh
NewTaskHistory ==
  /\ calls' = <<>>
  /\ attempt' = "none"
  /\ err_at_gate' = "unreached"
  /\ notified' = "no"
  /\ lh_runs' = 0
  /\ std_runs' = 0

\* lines 45-53: the loop test and the exit file
LoopTop ==
  /\ Running /\ pc = "L45"
  /\ UNCHANGED bvars
  /\ IF ~KeepLooping(must_exit)
     THEN /\ proc' = "returned"
          /\ pc' = "end"
          /\ exit_reason' = "must_exit"
          /\ UNCHANGED <<must_exit, calls, attempt, err_at_gate, notified,
                         lh_runs, std_runs, exc_seen, refreshed>>
     ELSE \E exit_file \in BOOLEAN :
            IF exit_file
            THEN /\ must_exit' = TRUE
                 /\ proc' = "returned"
                 /\ pc' = "end"
                 /\ exit_reason' = "exit_file"
                 /\ UNCHANGED <<calls, attempt, err_at_gate, notified,
                                lh_runs, std_runs, exc_seen, refreshed>>
            ELSE /\ pc' = "L54"
                 /\ NewTaskHistory
                 /\ exc_seen' = "none"
                 /\ refreshed' = FALSE
                 /\ UNCHANGED <<must_exit, proc, exit_reason>>
  /\ UNCHANGED <<job, task, options_exit, options_alive, rpc, ret, browser, launched, shaped>>
  /\ UNCHANGED <<uploads, njobs, jtasks, signals, exit_in_task, fetched_after>>

\* line 54: self.browsers.is_ready()
IsReady ==
  /\ Running /\ pc = "L54"
  /\ UNCHANGED bvars
  /\ UNCHANGED refreshed
  /\ \E r \in {"true", "false", "raise"} :
       IF r = "raise"
       THEN /\ Raise("is_ready")
       ELSE /\ pc' = IF r = "true" THEN "L55" ELSE "L84"
            /\ UNCHANGED <<task, proc, rpc, ret, browser, attempt, exc_seen>>
  /\ UNCHANGED <<must_exit, job, options_exit, options_alive, launched, shaped>>
  /\ UNCHANGED <<calls, uploads, njobs, jtasks, err_at_gate, notified,
                 lh_runs, std_runs, signals, exit_in_task, fetched_after,
                 exit_reason>>

\* lines 55-57: self.job = self.wpt.get_test()
GetTest ==
  /\ Running /\ pc = "L55"
  /\ UNCHANGED bvars
  /\ UNCHANGED refreshed
  /\ fetched_after' = IF exit_in_task THEN "get_test" ELSE fetched_after
  /\ \/ /\ Raise("get_test")
        /\ UNCHANGED <<job, njobs, jtasks>>
     \/ /\ job' = NoJob
        /\ pc' = "L84"
        /\ UNCHANGED <<task, proc, rpc, ret, browser, attempt, exc_seen,
                       njobs, jtasks>>
     \/ /\ njobs < MaxJobs
        /\ \E j \in Jobs : job' = j
        /\ njobs' = njobs + 1
        /\ jtasks' = 0
        /\ pc' = "L58"
        /\ UNCHANGED <<task, proc, rpc, ret, browser, attempt, exc_seen>>
  /\ UNCHANGED <<must_exit, options_exit, options_alive, launched, shaped>>
  /\ UNCHANGED <<calls, uploads, err_at_gate, notified, lh_runs,
                 std_runs, signals, exit_in_task, exit_reason>>

\* self.task = self.wpt.get_task(self.job), at line 58 (site "L58") and at
\* line 83 (site "L83"), followed by the test of line 59
GetTaskAt(at) ==
  /\ Running /\ pc = at
  /\ UNCHANGED bvars
  /\ UNCHANGED refreshed
  /\ fetched_after' = IF exit_in_task /\ fetched_after = "none"
                      THEN "get_task" ELSE fetched_after
  /\ \/ /\ Raise("get_task")
        /\ UNCHANGED <<jtasks, calls, uploads, err_at_gate, notified, lh_runs,
                       std_runs>>
     \/ /\ task' = NoTask
        /\ pc' = "L84"
        /\ UNCHANGED <<proc, rpc, ret, browser, attempt, exc_seen, jtasks,
                       calls, uploads, err_at_gate, notified, lh_runs,
                       std_runs>>
     \/ /\ jtasks < MaxTasks
        /\ \E run \in {1, 2}, cached \in BOOLEAN :
             task' = NewTask(run, cached)
        /\ jtasks' = jtasks + 1
        /\ NewTaskHistory
        /\ uploads' = 0
        /\ exc_seen' = "none"
        /\ pc' = "L62"
        /\ UNCHANGED <<proc, rpc, ret, browser>>
  /\ UNCHANGED <<must_exit, job, options_exit, options_alive, launched, shaped>>
  /\ UNCHANGED <<njobs, signals, exit_in_task, exit_reason>>

GetTask == GetTaskAt("L58")

GetNextTask == GetTaskAt("L83")

\* the first step of run_single_test, entered from run_testing
EnterRunSingleTest(back) ==
  /\ rpc' = "L107"
  /\ ret' = back
  /\ calls' = <<>>
  /\ attempt' = "active"

\* a standard run made for every job type
StandardRunAlways(j) == TRUE

\* line 63: if self.job['type'] != 'lighthouse'
StandardRun(j) == j.type # "lighthouse"

\* lines 60-64: the standard run, unless the job is a Lighthouse-only job
BeginRun ==
  /\ Running /\ pc = "L62"
  /\ UNCHANGED bvars
  /\ UNCHANGED refreshed
  /\ task' = [task EXCEPT !.running_lighthouse = FALSE]
  /\ IF StandardRun(job)
     THEN /\ pc' = "L64"
          /\ EnterRunSingleTest("L65")
          /\ std_runs' = std_runs + 1
     ELSE /\ pc' = "L65"
          /\ UNCHANGED <<rpc, ret, calls, attempt, std_runs>>
  /\ UNCHANGED <<must_exit, job, options_exit, options_alive, browser, proc, launched, shaped>>
  /\ UNCHANGED <<uploads, njobs, jtasks, err_at_gate, notified,
                 lh_runs, signals, exit_in_task, fetched_after, exc_seen,
                 exit_reason>>

\* lines 65-68 (and 71-72 when the condition is false)
Gate ==
  /\ Running /\ pc = "L65"
  /\ UNCHANGED bvars
  /\ UNCHANGED refreshed
  /\ err_at_gate' = task.error
  /\ IF LighthouseGate(task, job)
     THEN /\ task' = [task EXCEPT !.running_lighthouse = TRUE]
          /\ pc' = "L69"
     ELSE /\ pc' = "L81"
          /\ UNCHANGED task
  /\ UNCHANGED <<must_exit, job, options_exit, options_alive, rpc, ret, browser, proc,
                 launched, shaped>>
  /\ UNCHANGED <<calls, attempt, uploads, njobs, jtasks, notified,
                 lh_runs, std_runs, signals, exit_in_task, fetched_after,
                 exc_seen, exit_reason>>

\* lines 69-70: self.wpt.running_another_test(self.task), then the second run
Notify ==
  /\ Running /\ pc = "L69"
  /\ UNCHANGED bvars
  /\ UNCHANGED refreshed
  /\ \/ /\ Raise("running_another_test")
        /\ notified' = "raised"
        /\ UNCHANGED <<calls, lh_runs>>
     \/ /\ pc' = "L70"
        /\ notified' = "returned"
        /\ EnterRunSingleTest("L81")
        /\ lh_runs' = lh_runs + 1
        /\ UNCHANGED <<task, proc, browser, exc_seen>>
  /\ UNCHANGED <<must_exit, job, options_exit, options_alive, launched, shaped>>
  /\ UNCHANGED <<uploads, njobs, jtasks, err_at_gate, std_runs,
                 signals, exit_in_task, fetched_after, exit_reason>>

\* ------------------------------------------------------- run_single_test
InRunSingleTest(at) == Running /\ rpc = at

\* what run_single_test leaves alone in every step
RunFrame ==
  /\ UNCHANGED <<must_exit, job, options_exit, options_alive>>
  /\ UNCHANGED <<uploads, njobs, jtasks, err_at_gate, notified,
                 lh_runs, std_runs, signals, exit_in_task, fetched_after,
                 exit_reason>>

\* run_single_test returns to its caller
Return ==
  /\ rpc' = "none"
  /\ pc' = ret
  /\ ret' = "none"
  /\ browser' = None
  /\ attempt' = "left"

\* lines 188-192: alive() touches the watchdog file if one is configured
Alive(configured) == configured

\* lines 107-109 and 133-137: alive(), get_browser
GetBrowser ==
  /\ InRunSingleTest("L107")
  /\ UNCHANGED bvars
  /\ refreshed' = (refreshed \/ Alive(options_alive))
  /\ calls' = Append(calls, "get_browser")
  /\ \/ /\ browser' = "browser"
        /\ rpc' = "L110"
        /\ UNCHANGED <<task, pc, ret, attempt>>
     \/ /\ task' = [task EXCEPT !.error = ErrInvalidBrowser]
        /\ Return
  /\ UNCHANGED <<proc, launched, shaped, exc_seen>>
  /\ RunFrame

\* line 110: browser.prepare(self.job, self.task)
Prepare ==
  /\ InRunSingleTest("L110")
  /\ UNCHANGED bvars
  /\ UNCHANGED refreshed
  /\ calls' = Append(calls, "prepare")
  /\ \/ /\ rpc' = "L111"
        /\ UNCHANGED <<task, pc, ret, browser, proc, attempt, exc_seen>>
     \/ Raise("run_single_test")
  /\ UNCHANGED <<launched, shaped>>
  /\ RunFrame

\* line 111: browser.launch(self.job, self.task); a launch that raises may
\* or may not have started the browser process
Launch ==
  /\ InRunSingleTest("L111")
  /\ UNCHANGED bvars
  /\ UNCHANGED refreshed
  /\ calls' = Append(calls, "launch")
  /\ \/ /\ rpc' = "L112"
        /\ launched' = TRUE
        /\ UNCHANGED <<task, pc, ret, browser, proc, attempt, exc_seen>>
     \/ /\ Raise("run_single_test")
        /\ launched' \in BOOLEAN
  /\ UNCHANGED shaped
  /\ RunFrame

\* a run that goes on although shaping could not be configured
AfterConfigureRunsAnyway(ok) == "L114"

\* lines 112 and 126: the run if configure returned true, else the teardown
AfterConfigure(ok) == IF ok THEN "L114" ELSE "L128"

\* lines 112 and 126-127: self.shaper.configure(self.job)
Configure ==
  /\ InRunSingleTest("L112")
  /\ UNCHANGED bvars
  /\ UNCHANGED refreshed
  /\ calls' = Append(calls, "configure")
  /\ \/ /\ rpc' = AfterConfigure(TRUE)
        /\ shaped' = TRUE
        /\ UNCHANGED <<task, pc, ret, browser, proc, attempt, exc_seen>>
     \/ /\ rpc' = AfterConfigure(FALSE)
        /\ task' = [task EXCEPT !.error = ErrShaping]
        /\ UNCHANGED <<shaped, pc, ret, browser, proc, attempt, exc_seen>>
     \/ /\ Raise("run_single_test")
        /\ shaped' \in BOOLEAN
  /\ UNCHANGED launched
  /\ RunFrame

\* lines 113-125: run_lighthouse_test or run_task; the browser may record an
\* error on the task, and an exception is caught here
RunName(t) == IF t.running_lighthouse THEN "run_lighthouse_test" ELSE "run_task"

RunBrowser ==
  /\ InRunSingleTest("L114")
  /\ UNCHANGED bvars
  /\ UNCHANGED refreshed
  /\ calls' = Append(calls, RunName(task))
  /\ \E outcome \in {"ok", "error", "raise"} :
       /\ task' = CASE outcome = "ok" -> task
                    [] outcome = "error" -> [task EXCEPT !.error = ErrBrowser]
                    [] outcome = "raise" -> [task EXCEPT !.error = ErrTestRun]
       /\ exc_seen' = IF outcome = "raise" THEN RunName(task) ELSE exc_seen
  /\ rpc' = "L128"
  /\ UNCHANGED <<pc, ret, browser, proc, attempt, launched, shaped>>
  /\ RunFrame

\* line 128: self.shaper.reset()
Reset ==
  /\ InRunSingleTest("L128")
  /\ UNCHANGED bvars
  /\ UNCHANGED refreshed
  /\ calls' = Append(calls, "reset")
  /\ shaped' = FALSE
  /\ rpc' = "L129"
  /\ UNCHANGED <<task, pc, ret, browser, proc, attempt, launched, exc_seen>>
  /\ RunFrame

\* line 129: browser.stop(self.job, self.task)
Stop ==
  /\ InRunSingleTest("L129")
  /\ UNCHANGED bvars
  /\ UNCHANGED refreshed
  /\ calls' = Append(calls, "stop")
  /\ launched' = FALSE
  /\ rpc' = "L131"
  /\ UNCHANGED <<task, pc, ret, browser, proc, attempt, shaped, exc_seen>>
  /\ RunFrame

\* a profile deleted only for a cached run
ClearProfileIfCached(t, j) == t.cached

\* lines 130-132: delete the browser profile if needed
ClearProfileNeeded(t, j) == t.cached \/ j.fvonly

ClearProfile ==
  /\ InRunSingleTest("L131")
  /\ UNCHANGED bvars
  /\ UNCHANGED refreshed
  /\ calls' = IF ClearProfileNeeded(task, job)
              THEN Append(calls, "clear_profile") ELSE calls
  /\ Return
  /\ UNCHANGED <<task, proc, launched, shaped, exc_seen>>
  /\ RunFrame

\* ------------------------------------------------- run_testing, continued
\* line 81: self.wpt.upload_task_result(self.task)
Upload ==
  /\ Running /\ pc = "L81"
  /\ UNCHANGED bvars
  /\ UNCHANGED refreshed
  /\ uploads' = uploads + 1
  /\ \/ /\ pc' = "L83"
        /\ UNCHANGED <<task, proc, rpc, ret, browser, attempt, exc_seen>>
     \/ Raise("upload_task_result")
  /\ UNCHANGED <<must_exit, job, options_exit, options_alive, launched, shaped>>
  /\ UNCHANGED <<calls, njobs, jtasks, err_at_gate, notified, lh_runs,
                 std_runs, signals, exit_in_task, fetched_after, exit_reason>>

\* lines 84-87: forget the job, or sleep when there was none
EndIteration ==
  /\ Running /\ pc = "L84"
  /\ UNCHANGED bvars
  /\ UNCHANGED refreshed
  /\ job' = NoJob
  /\ pc' = "L100"
  /\ UNCHANGED <<must_exit, task, options_exit, options_alive, rpc, ret, browser, proc,
                 launched, shaped>>
  /\ UNCHANGED histVars

\* lines 100-103: the run-time budget
BudgetCheck ==
  /\ Running /\ pc = "L100"
  /\ UNCHANGED bvars
  /\ UNCHANGED refreshed
  /\ \E expired \in BOOLEAN :
       IF options_exit > 0 /\ expired
       THEN /\ proc' = "returned"
            /\ pc' = "end"
            /\ exit_reason' = "budget"
       ELSE /\ pc' = "L45"
            /\ UNCHANGED <<proc, exit_reason>>
  /\ UNCHANGED <<must_exit, job, task, options_exit, options_alive, rpc, ret, browser,
                 launched, shaped>>
  /\ UNCHANGED <<calls, attempt, uploads, njobs, jtasks, err_at_gate,
                 notified, lh_runs, std_runs, signals, exit_in_task,
                 fetched_after, exc_seen>>

\* ---------------------------------------------------------- signal_handler
\* a handler that exits on the first interrupt
SignalEffectAlwaysExit(flag) == "exit"

\* lines 139-147: what an interrupt does given the flag
SignalEffect(flag) == IF flag THEN "exit" ELSE "set_flag"

SignalHandler ==
  /\ Running
  /\ UNCHANGED bvars
  /\ UNCHANGED refreshed
  /\ signals' = signals + 1
  /\ IF SignalEffect(must_exit) = "exit"
     THEN /\ proc' = "exited"
          /\ UNCHANGED <<must_exit, exit_in_task>>
     ELSE /\ must_exit' = TRUE
          /\ exit_in_task' = InTask
          /\ UNCHANGED proc
  /\ UNCHANGED <<job, task, options_exit, options_alive, pc, rpc, ret, browser, launched,
                 shaped>>
  /\ UNCHANGED <<calls, attempt, uploads, njobs, jtasks, err_at_gate,
                 notified, lh_runs, std_runs, fetched_after, exc_seen,
                 exit_reason>>

\* ======================================================= DevtoolsBrowser
ErrConnect == "Error connecting to dev tools interface"

\* a script command; 'id' is its place in the script as the task was created.
\* The scripts are drawn from navigations, recorded or not, and from one
\* command of another kind, which process_command ignores.
Shapes ==
  {[command |-> "navigate", record |-> TRUE],
   [command |-> "navigate", record |-> FALSE],
   [command |-> "click", record |-> FALSE]}

Scripts ==
  UNION { { [i \in 1..n |-> [id |-> i, command |-> f[i].command,
                             record |-> f[i].record]] : f \in [1..n -> Shapes] }
          : n \in 0..MaxLen }

NoCommand == [id |-> 0, command |-> "none", record |-> FALSE]

MetricNames == {"m1", "m2"}

\* 'customMetrics' in self.job, and its names
CustomOptions ==
  {[present |-> FALSE, names |-> {}]}
    \cup {[present |-> TRUE, names |-> ns] : ns \in SUBSET MetricNames}

BrowserJobs == [pngss : BOOLEAN, customMetrics : CustomOptions]

Kinds == {"timed_events", "page_data", "metrics", "screen.png", "screen.jpg"}

\* a local of a method that is not being run
Unset == "unset"

Event(op, id) == [op |-> op, id |-> id]

\* the entries of self.job that prepare_browser reads: 'mobile' (absent,
\* falsy, truthy), which of 'width', 'height' and 'dpr' are there, whether
\* 'uastring' is there, and 'keepua' (absent, falsy, truthy)
Dims == {"width", "height", "dpr"}

PrepareOptions ==
  [mobile : {"absent", "false", "true"}, dims : SUBSET Dims,
   uastring : BOOLEAN, keepua : {"absent", "false", "true"}]

\* a job with none of them
PlainOptions ==
  [mobile |-> "absent", dims |-> {}, uastring |-> FALSE, keepua |-> "absent"]

\* what a method returned or raised
Ret(method, value) == [method |-> method, value |-> value]

NoCall == Ret("none", "None")

\* a user-agent string is a sequence of tokens; ua_string is None
NoUa == <<>>

\* a call made on self.devtools
Command(method, param) == [method |-> method, param |-> param]

\* self.devtools.send_command(method, params, wait=...)
SendCommand(method, param, wait) ==
  [method |-> method, param |-> param, wait |-> wait]

\* DevtoolsBrowser.__init__ (lines 15-18) and a task not yet run
BrowserInit ==
  /\ devtools = None
  /\ task_error = None
  /\ bpc = "idle"
  /\ command = NoCommand
  /\ now = 0
  /\ end_time = 0
  /\ files = [k \in Kinds |-> 0]
  /\ metrics = {}
  /\ trace = <<>>
  /\ orig_script = script
  /\ rt_start = 0
  /\ iterations = 0
  /\ ran = "no"
  /\ user_timing = Unset
  /\ page_data = Unset
  /\ returned = NoCall
  /\ sent = <<>>
  /\ dropped = FALSE
  /\ navigator_ua = NoUa

BFrame == UNCHANGED avars

\* lines 20-32: connect. The DevTools object of line 24 replaces the one
\* self.devtools held, on which close() is not called.
Connect ==
  /\ bpc = "idle"
  /\ BFrame
  /\ \E ok \in BOOLEAN :
       IF ok
       THEN /\ devtools' = "session"
            /\ returned' = Ret("connect", "True")
            /\ UNCHANGED task_error
       ELSE /\ devtools' = None
            /\ task_error' = ErrConnect
            /\ returned' = Ret("connect", "False")
  /\ sent' = <<>>
  /\ dropped' = (devtools # None)
  /\ navigator_ua' = NoUa
  /\ UNCHANGED <<bjob, script, time_limit, bpc, command, now, end_time, files,
                 metrics>>
  /\ UNCHANGED <<bhistVars, collectVars, bopts>>

\* a disconnect that closes without looking
ClosesAlways(d) == TRUE

\* line 36: self.devtools.close() is called
Closes(d) == d # None

\* lines 34-38: disconnect
Disconnect ==
  /\ bpc = "idle"
  /\ BFrame
  /\ devtools' = None
  /\ returned' = Ret("disconnect", "None")
  /\ sent' = IF Closes(devtools) THEN <<Command("close", <<>>)>> ELSE <<>>
  /\ dropped' = FALSE
  /\ navigator_ua' = NoUa
  /\ UNCHANGED <<bjob, script, time_limit, task_error, bpc, command, now,
                 end_time, files, metrics>>
  /\ UNCHANGED <<bhistVars, collectVars, bopts>>

\* --------------------------------------------------------- prepare_browser
\* ' PTST/{0:d}'.format(constants.CURRENT_VERSION)
Marker == "PTST/version"

\* an emulation that does not look for the dimensions
MobileEmulationAnyDims(o) == o.mobile = "true"

\* lines 44-46: the job asks for mobile emulation and gives its dimensions
MobileEmulation(o) == o.mobile = "true" /\ Dims \subseteq o.dims

\* lines 47-60: the two overrides, each with the job's entries it passes
Emulation(o) ==
  IF MobileEmulation(o)
  THEN <<SendCommand("Emulation.setDeviceMetricsOverride",
                     <<"width", "height", "dpr">>, TRUE),
         SendCommand("Emulation.setVisibleSize", <<"width", "height">>, TRUE)>>
  ELSE <<>>

\* lines 62-65: the job's uastring, else what navigator.userAgent evaluated to
UaString(o, nav_ua) == IF o.uastring THEN <<"job_ua">> ELSE nav_ua

\* a condition that is always true
Line66AlwaysTrue(ua, o) == "True"

\* line 66, as Python groups it: (ua_string is not None and 'keepua' not in
\* self.job) or (not self.job['keepua']); the second operand is evaluated
\* only if the first is false, and reads an entry that may not be there
Line66(ua, o) ==
  IF ua # NoUa /\ o.keepua = "absent" THEN "True"
  ELSE IF o.keepua = "absent" THEN "KeyError"
  ELSE IF o.keepua = "false" THEN "True"
  ELSE "False"

\* lines 66-67: the string to apply, or the exception raised on the way
\* (None += str is a TypeError)
UaOverride(ua, o) ==
  CASE Line66(ua, o) = "KeyError" -> [raised |-> "KeyError", ua |-> ua]
    [] Line66(ua, o) = "False" -> [raised |-> "None", ua |-> ua]
    [] Line66(ua, o) = "True" ->
         IF ua = NoUa THEN [raised |-> "TypeError", ua |-> ua]
         ELSE [raised |-> "None", ua |-> Append(ua, Marker)]

\* lines 68-71: the override is sent if there is a string to apply
UaCommand(r) ==
  IF r.raised = "None" /\ r.ua # NoUa
  THEN <<SendCommand("Network.setUserAgentOverride", r.ua, TRUE)>>
  ELSE <<>>

\* a test that takes a session to be there
AttachedAlways(d) == TRUE

\* lines 42 and 136: self.devtools is not None
Attached(d) == d # None

\* lines 40-71: prepare_browser
PrepareBrowser ==
  /\ bpc = "idle"
  /\ BFrame
  /\ IF ~Attached(devtools)
     THEN /\ sent' = <<>>
          /\ returned' = Ret("prepare_browser", "None")
          /\ navigator_ua' = NoUa
     ELSE \E nav_ua \in {NoUa, <<"browser_ua">>} :
            LET r == UaOverride(UaString(bopts, nav_ua), bopts)
            IN /\ sent' = Emulation(bopts) \o UaCommand(r)
               /\ returned' = Ret("prepare_browser", r.raised)
               /\ navigator_ua' = IF bopts.uastring THEN NoUa ELSE nav_ua
  /\ dropped' = FALSE
  /\ UNCHANGED <<browserVars, bhistVars, collectVars, bopts>>

\* lines 134-137: navigate
Navigate ==
  /\ bpc = "idle"
  /\ BFrame
  /\ \E url \in {"about:blank"} :
       sent' = IF Attached(devtools)
               THEN <<SendCommand("Page.navigate", <<url>>, TRUE)>> ELSE <<>>
  /\ returned' = Ret("navigate", "None")
  /\ dropped' = FALSE
  /\ navigator_ua' = NoUa
  /\ UNCHANGED <<browserVars, bhistVars, collectVars, bopts>>

\* ---------------------------------------------------------------- run_task
\* a test that lets a command begin at the very end of the budget
TimeLeftInclusive(t, end) == t <= end

\* line 78: monotonic.monotonic() < end_time
TimeLeft(t, end) == t < end

\* line 78: the loop goes on
LoopGoesOn(q, t, end) == Len(q) > 0 /\ TimeLeft(t, end)

\* a pop() from the wrong end
PopLast(q) == <<q[Len(q)], SubSeq(q, 1, Len(q) - 1)>>

\* a read of the first command that leaves it in the queue
Peek(q) == <<Head(q), q>>

\* line 79: command = task['script'].pop(0), as <<command, rest>>
Pop(q) == <<Head(q), Tail(q)>>

\* a screenshot that is always a JPEG
ScreenShotAlwaysJpg(j) == "screen.jpg"

\* a body that stops the recording before it waits for the page load
BodyNextStopsEarly(at, cmd) ==
  CASE at = "L79" -> IF cmd.record THEN "L81" ELSE "L82"
    [] at = "L81" -> "L82"
    [] at = "L82" -> IF cmd.record THEN "L85" ELSE "L78"
    [] at = "L85" -> "L84"
    [] at = "L84" -> "L86"
    [] at = "L86" -> "L92"
    [] at = "L92" -> "L78"

\* the loop body's control flow (lines 80-92): the position after 'at'
BodyNext(at, cmd) ==
  CASE at = "L79" -> IF cmd.record THEN "L81" ELSE "L82"
    [] at = "L81" -> "L82"
    [] at = "L82" -> IF cmd.record THEN "L84" ELSE "L78"
    [] at = "L84" -> "L85"
    [] at = "L85" -> "L86"
    [] at = "L86" -> "L92"
    [] at = "L92" -> "L78"

\* run_task leaves these alone
RunTaskFrame ==
  /\ BFrame
  /\ UNCHANGED <<devtools, bjob, time_limit, orig_script, rt_start>>
  /\ UNCHANGED sessVars

\* lines 73-77: run_task is entered (once per task: src/wptagent.py line 117)
RunTaskBegin ==
  /\ bpc = "idle" /\ ran = "no"
  /\ rt_start' = now
  /\ IF devtools # None
     THEN /\ end_time' = now + time_limit
          /\ bpc' = "L78"
          /\ ran' = "running"
     ELSE /\ ran' = "skipped"
          /\ UNCHANGED <<end_time, bpc>>
  /\ BFrame
  /\ UNCHANGED <<devtools, bjob, script, time_limit, task_error, command, now,
                 files, metrics, trace, orig_script, iterations>>
  /\ dropped' = FALSE
  /\ UNCHANGED <<collectVars, bopts, returned, sent, navigator_ua>>

\* lines 78-79: the loop test and the dequeue
LoopTest ==
  /\ bpc = "L78"
  /\ IF LoopGoesOn(script, now, end_time)
     THEN /\ command' = Pop(script)[1]
          /\ script' = Pop(script)[2]
          /\ trace' = Append(trace, Event("dequeue", Pop(script)[1].id))
          /\ iterations' = iterations + 1
          /\ bpc' = BodyNext("L79", Pop(script)[1])
          /\ UNCHANGED ran
     ELSE /\ bpc' = "idle"
          /\ ran' = "done"
          /\ command' = NoCommand
          /\ UNCHANGED <<script, trace, iterations>>
  /\ user_timing' = Unset
  /\ page_data' = Unset
  /\ RunTaskFrame
  /\ UNCHANGED <<task_error, now, end_time, files, metrics>>

\* line 81: self.devtools.start_recording()
StartRecording ==
  /\ bpc = "L81"
  /\ trace' = Append(trace, Event("start_recording", command.id))
  /\ bpc' = BodyNext("L81", command)
  /\ RunTaskFrame
  /\ UNCHANGED <<script, task_error, command, now, end_time, files, metrics,
                 iterations, ran>>
  /\ UNCHANGED collectVars

\* lines 130-132: the protocol commands process_command sends
Sends(cmd) ==
  IF cmd.command = "navigate" THEN <<Event("Page.navigate", cmd.id)>> ELSE <<>>

\* lines 82 and 129-132: self.process_command(command); issuing the action
\* takes some time
ProcessCommand ==
  /\ bpc = "L82"
  /\ trace' = Append(trace, Event("process_command", command.id)) \o Sends(command)
  /\ \E d \in 0..1 : now' = now + d
  /\ bpc' = BodyNext("L82", command)
  /\ RunTaskFrame
  /\ UNCHANGED <<script, task_error, command, end_time, files, metrics,
                 iterations, ran>>
  /\ UNCHANGED collectVars

\* line 84: self.devtools.wait_for_page_load() returns once the load has
\* completed or its own timeout has fired
WaitForPageLoad ==
  /\ bpc = "L84"
  /\ \E d \in 0..MaxDelay : now' = now + d
  /\ trace' = Append(trace, Event("page_loaded", command.id))
  /\ bpc' = BodyNext("L84", command)
  /\ RunTaskFrame
  /\ UNCHANGED <<script, task_error, command, end_time, files, metrics,
                 iterations, ran>>
  /\ UNCHANGED collectVars

\* line 85: self.devtools.stop_recording()
StopRecording ==
  /\ bpc = "L85"
  /\ trace' = Append(trace, Event("stop_recording", command.id))
  /\ bpc' = BodyNext("L85", command)
  /\ RunTaskFrame
  /\ UNCHANGED <<script, task_error, command, now, end_time, files, metrics,
                 iterations, ran>>
  /\ UNCHANGED collectVars

\* lines 86-91: the screenshot file
ScreenShot(j) == IF j.pngss THEN "screen.png" ELSE "screen.jpg"

GrabScreenshot ==
  /\ bpc = "L86"
  /\ files' = [files EXCEPT ![ScreenShot(bjob)] = @ + 1]
  /\ bpc' = BodyNext("L86", command)
  /\ RunTaskFrame
  /\ UNCHANGED <<script, task_error, command, now, end_time, metrics, trace,
                 iterations, ran>>
  /\ UNCHANGED collectVars

\* ------------------------------------------------ collect_browser_metrics
\* lines 118-127: the metrics file is written when the job has customMetrics
WritesMetrics(j) == j.customMetrics.present

\* a collection that gives up at the first script without a result
CollectedUntilFailure(f, ut, pd, j) ==
  [k \in Kinds |->
     f[k] + (IF \/ k = "timed_events" /\ ut # None
                \/ k = "page_data" /\ ut # None /\ pd # None
                \/ k = "metrics" /\ ut # None /\ pd # None /\ WritesMetrics(j)
             THEN 1 ELSE 0)]

\* lines 108-127: the files written, given what the scripts returned
Collected(f, ut, pd, j) ==
  [k \in Kinds |->
     f[k] + (IF \/ k = "timed_events" /\ ut # None
                \/ k = "page_data" /\ pd # None
                \/ k = "metrics" /\ WritesMetrics(j)
             THEN 1 ELSE 0)]

\* lines 94-104: run_js_file evaluates the script if its file exists
RunJsFile(is_file, result) == IF is_file THEN result ELSE None

\* lines 119-124: custom_metrics[name] = execute_js(...) for every name
CustomMetrics(j, result) == {<<name, result[name]>> : name \in j.customMetrics.names}

\* line 92 and lines 106-127: execute_js returns a value, or None when the
\* evaluation fails
CollectBrowserMetrics ==
  /\ bpc = "L92"
  /\ \E ut_file \in BOOLEAN, ut \in {None, "value"},
        pd_file \in BOOLEAN, pd \in {None, "value"},
        result \in [MetricNames -> {None, "value"}] :
       /\ user_timing' = RunJsFile(ut_file, ut)
       /\ page_data' = RunJsFile(pd_file, pd)
       /\ files' = Collected(files, RunJsFile(ut_file, ut),
                             RunJsFile(pd_file, pd), bjob)
       /\ metrics' = IF WritesMetrics(bjob)
                     THEN CustomMetrics(bjob, result) ELSE metrics
  /\ bpc' = BodyNext("L92", command)
  /\ RunTaskFrame
  /\ UNCHANGED <<script, task_error, command, now, end_time, trace,
                 iterations, ran>>

RunTaskStep ==
  \/ LoopTest \/ StartRecording \/ ProcessCommand \/ WaitForPageLoad
  \/ StopRecording \/ GrabScreenshot \/ CollectBrowserMetrics

\* ========================================================= specifications
\* the browser is not looked at while the agent's loop is studied
BrowserAtRest ==
  /\ bjob = [pngss |-> FALSE, customMetrics |-> [present |-> FALSE, names |-> {}]]
  /\ script = <<>>
  /\ time_limit = 0
  /\ bopts = PlainOptions
  /\ BrowserInit

Init ==
  /\ AgentInit
  /\ options_exit \in {0, 1}
  /\ options_alive \in BOOLEAN
  /\ BrowserAtRest

Next ==
  \/ LoopTop \/ IsReady \/ GetTest \/ GetTask \/ GetNextTask
  \/ BeginRun \/ Gate \/ Notify
  \/ GetBrowser \/ Prepare \/ Launch \/ Configure \/ RunBrowser
  \/ Reset \/ Stop \/ ClearProfile
  \/ Upload \/ EndIteration \/ BudgetCheck
  \/ SignalHandler

Spec == Init /\ [][Next]_vars

\* the browser's methods, called on one task
InitBrowser ==
  /\ AgentInit
  /\ options_exit = 0
  /\ options_alive = FALSE
  /\ bjob \in BrowserJobs
  /\ script \in Scripts
  /\ time_limit \in 0..MaxLimit
  /\ bopts = PlainOptions
  /\ BrowserInit

NextBrowser ==
  \/ Connect \/ Disconnect \/ RunTaskBegin
  \/ LoopTest \/ StartRecording \/ ProcessCommand \/ WaitForPageLoad
  \/ StopRecording \/ GrabScreenshot \/ CollectBrowserMetrics

SpecBrowser == InitBrowser /\ [][NextBrowser]_vars

\* run_task's steps are taken one after the other by the one thread there is
FairBrowser == SpecBrowser /\ WF_vars(RunTaskStep)

\* connect, prepare_browser, navigate and disconnect, for every job
InitPrepare ==
  /\ AgentInit
  /\ options_exit = 0
  /\ options_alive = FALSE
  /\ bjob = [pngss |-> FALSE, customMetrics |-> [present |-> FALSE, names |-> {}]]
  /\ script = <<>>
  /\ time_limit = 0
  /\ bopts \in PrepareOptions
  /\ BrowserInit

NextPrepare == Connect \/ Disconnect \/ PrepareBrowser \/ Navigate

SpecPrepare == InitPrepare /\ [][NextPrepare]_vars

\* a job with mobile emulation, no keepua, no custom metrics and PNG
\* screenshots, and a script of two navigations, the second one recorded
ScenarioOptions ==
  [mobile |-> "true", dims |-> Dims, uastring |-> FALSE, keepua |-> "absent"]

ScenarioJob ==
  [pngss |-> TRUE, customMetrics |-> [present |-> FALSE, names |-> {}]]

ScenarioScript ==
  <<[id |-> 1, command |-> "navigate", record |-> FALSE],
    [id |-> 2, command |-> "navigate", record |-> TRUE]>>

\* all the methods of the browser, called on that job and one task
InitSession ==
  /\ AgentInit
  /\ options_exit = 0
  /\ options_alive = FALSE
  /\ bjob = ScenarioJob
  /\ script = ScenarioScript
  /\ time_limit \in 0..MaxLimit
  /\ bopts = ScenarioOptions
  /\ BrowserInit

NextSession ==
  \/ Connect \/ Disconnect \/ PrepareBrowser \/ Navigate \/ RunTaskBegin
  \/ LoopTest \/ StartRecording \/ ProcessCommand \/ WaitForPageLoad
  \/ StopRecording \/ GrabScreenshot \/ CollectBrowserMetrics

SpecSession == InitSession /\ [][NextSession]_vars

\* ================================================================ claims
InCalls(c) == \E i \in DOMAIN calls : calls[i] = c

\* self.task is a task obtained from get_task and not yet replaced
TaskAtHand == InTask \/ pc = "L83"

\* the four conditions of the secondary run, on the task's error as it was
\* when line 65 was evaluated
FourConditions ==
  /\ task.run = 1
  /\ ~task.cached
  /\ err_at_gate = None
  /\ job.lighthouse = "true"

\* C1: for every task, the secondary Lighthouse run happens if and only if
\* run == 1, the task is not cached, task.error is absent when the decision
\* is taken and job.lighthouse is present and true: running_lighthouse is
\* set exactly then, running_another_test is called exactly then, and
\* run_single_test is called again exactly when that call returned.
C1_LighthouseGating ==
  TaskAtHand =>
    /\ task.running_lighthouse <=> FourConditions
    /\ (notified # "no") <=> (FourConditions /\ pc # "L69")
    /\ (lh_runs = 1) <=> (notified = "returned")
    /\ lh_runs <= 1

\* C1, witness: the secondary run was made and the task is about to be
\* uploaded
C1_Witness ==
  /\ pc = "L81" /\ lh_runs = 1 /\ std_runs = 1
  /\ InCalls("run_lighthouse_test")

\* C2: whenever control has left a run attempt in which a browser handle was
\* obtained, shaper.reset() and browser.stop() were both executed in it.
C2_TeardownOnEveryExit ==
  (attempt = "left" /\ InCalls("prepare")) =>
    (InCalls("reset") /\ InCalls("stop"))

\* C3: no exception of a collaborator terminates run_testing: it never
\* propagates out of the loop, after an exception caught by the outer handler
\* the loop is at its next iteration, and run_testing returns only because
\* must_exit is set, the exit file was seen or the run-time budget expired.
C3_NoExceptionTerminates ==
  /\ proc # "crashed"
  /\ (Running /\ exc_seen \in {"is_ready", "get_test", "get_task", "upload_task_result"})
       => pc \in {"L100", "L45"}
  /\ proc = "returned" =>
       \/ exit_reason \in {"must_exit", "exit_file"} /\ must_exit
       \/ exit_reason = "budget" /\ options_exit > 0

\* C3, witness: upload_task_result raised and the loop is at its next test,
\* about to go on
C3_Witness ==
  /\ Running /\ pc = "L45" /\ ~must_exit
  /\ exc_seen = "upload_task_result"

\* C4: every task returned by get_task is passed to upload_task_result
\* exactly once: not before its run attempts are over, and once by the time
\* get_task is called again or the loop is left.
C4_UploadedExactlyOnce ==
  /\ uploads <= 1
  /\ InTask => uploads = 0
  /\ (jtasks > 0 /\ ~InTask /\ pc # "L58") => uploads = 1

\* C4, witness: a task whose run raised has been uploaded and the next
\* get_task is about to be called
C4_Witness ==
  /\ pc = "L83" /\ uploads = 1
  /\ task.error = ErrRunning

\* C5 as claimed: once must_exit is set by an interrupt while a task is
\* running, no further get_task or get_test call is made.
C5_NoFetchAfterExit == exit_in_task => fetched_after = "none"

\* C5, amended: once must_exit is set by an interrupt while a task is
\* running, no further get_test call is made (get_task is still called for
\* the job at hand), and when run_testing returns the last task obtained has
\* been uploaded.
C5_NoNewJobAfterExit ==
  /\ exit_in_task => fetched_after # "get_test"
  /\ (exit_in_task /\ proc = "returned") => (uploads = 1 /\ ~InTask)

\* C5, witness: a further task of the same job, obtained after the
\* interrupt, has run and is about to be uploaded
C5_Witness ==
  /\ exit_in_task /\ fetched_after = "get_task"
  /\ pc = "L81" /\ std_runs = 1

\* C6 as claimed: an interrupt never terminates the process while a task is
\* in progress.
C6_NeverExitsInTask == ~(proc = "exited" /\ InTask)

\* C6, amended: the first interrupt only sets must_exit and never terminates
\* the process; the process exits on the second interrupt, not before.
C6_OnlySecondInterruptExits ==
  /\ signals = 0 => proc # "exited"
  /\ signals = 1 => (must_exit /\ proc # "exited")
  /\ proc = "exited" => (signals = 2 /\ must_exit)

\* C6, witness: one interrupt arrived while a task was running, and the
\* task was run to its end and uploaded
C6_Witness ==
  /\ signals = 1 /\ exit_in_task
  /\ pc = "L83" /\ uploads = 1

\* the places in the trace of the calls 'op' made for command 'id'
Places(op, id) == {i \in DOMAIN trace : trace[i].op = op /\ trace[i].id = id}

\* the commands handed to process_command, in the order of the calls
Processed == SelectSeq(trace, LAMBDA e : e.op = "process_command")

\* C7: the commands handed to process_command are, in order, the first
\* commands of the script as the task was created: none skipped, repeated or
\* reordered; and the command being processed is the one of that place.
C7_FifoOrder ==
  /\ Len(Processed) <= Len(orig_script)
  /\ \A i \in DOMAIN Processed : Processed[i].id = i
  /\ bpc \in {"L81", "L82"} => command = orig_script[command.id]
  /\ ran # "no" =>
       script = SubSeq(orig_script, iterations + 1, Len(orig_script))

\* C7, witness: two commands have been handed to process_command
C7_Witness == Len(Processed) >= 2 /\ bpc = "L78"

\* C8: for a command with record=true, start_recording is called before the
\* command is processed and stop_recording only after wait_for_page_load has
\* returned, whatever the time the page load took; for a command with
\* record=false neither is called.
C8_RecordingBracket ==
  \A i \in DOMAIN trace :
    LET e == trace[i]
        recorded == orig_script[e.id].record
    IN /\ (e.op = "process_command" /\ recorded) =>
            \E j \in Places("start_recording", e.id) : j < i
       /\ e.op = "stop_recording" =>
            \E j \in Places("page_loaded", e.id) :
              /\ j < i
              /\ \E k \in Places("process_command", e.id) : k < j
       /\ e.op \in {"start_recording", "stop_recording", "page_loaded"} =>
            (recorded /\ Cardinality(Places(e.op, e.id)) = 1)

\* C8, witness: a recording has just been stopped, after a page load that
\* ended later than the task's time budget
C8_Witness ==
  /\ bpc = "L86" /\ now > end_time
  /\ trace[Len(trace)].op = "stop_recording"
  /\ trace[Len(trace) - 1].op = "page_loaded"

\* C9: no command is dequeued or begun at a clock reading at or after
\* (the clock when run_task was entered + time_limit), and the commands left
\* in the queue when run_task ends are the unexecuted rest of the script.
C9_TimeBudget ==
  /\ [][(\/ iterations' # iterations
         \/ Len(script') # Len(script)
         \/ Len(trace') # Len(trace) /\ bpc = "L78")
          => now < rt_start + time_limit]_vars
  /\ [](ran = "done" =>
         /\ script = SubSeq(orig_script, iterations + 1, Len(orig_script))
         /\ Len(Processed) = iterations)

\* C9, witness: run_task has ended on the time budget after one command,
\* with commands left in the queue
C9_Witness ==
  /\ ran = "done" /\ iterations = 1
  /\ Len(script) > 0 /\ now >= end_time

\* C10: during run_task the queue never grows and loses exactly one command
\* per iteration of the loop; run_task terminates; it has stopped only with
\* the queue empty or the time budget elapsed; and no step of run_task
\* changes task.error, also when the budget elapsed with commands still
\* queued.
C10_ShrinksAndTerminates ==
  /\ [][/\ Len(script') <= Len(script)
        /\ (iterations' = iterations + 1) <=> (Len(script') = Len(script) - 1)
        /\ (iterations' # iterations) => (iterations' = iterations + 1)]_vars
  /\ [](ran = "done" => (Len(script) = 0 \/ now >= end_time))
  /\ [][ran = "running" => task_error' = task_error]_vars
  /\ (ran = "running") ~> (ran = "done")

\* C10, witness: run_task has ended on the time budget with commands still
\* queued and no error on the task
C10_Witness ==
  /\ ran = "done" /\ Len(script) > 0 /\ now >= end_time
  /\ iterations >= 1 /\ task_error = None
\* C11: in collect_browser_metrics, each of timed_events and page_data is
\* written exactly when its own script returned a result, whatever the other
\* script and the custom metrics did; the metrics file is written whenever
\* the job has customMetrics, whatever the two scripts returned; and the
\* mapping written holds every configured custom metric, the ones whose
\* evaluation gave no result included.
C11_CollectionIsolated ==
  [][bpc = "L92" =>
       /\ files'["timed_events"] =
            files["timed_events"] + (IF user_timing' # None THEN 1 ELSE 0)
       /\ files'["page_data"] =
            files["page_data"] + (IF page_data' # None THEN 1 ELSE 0)
       /\ files'["metrics"] =
            files["metrics"] + (IF bjob.customMetrics.present THEN 1 ELSE 0)
       /\ bjob.customMetrics.present =>
            {m[1] : m \in metrics'} = bjob.customMetrics.names]_vars

\* C11, witness: user_timing gave no result and page_data was written all
\* the same; one custom metric gave no result and the other one is recorded
\* with its value
C11_Witness ==
  /\ user_timing = None /\ page_data = "value"
  /\ files["timed_events"] = 0 /\ files["page_data"] = 1
  /\ files["metrics"] = 1
  /\ metrics = {<<"m1", None>>, <<"m2", "value">>}
\* C12: the metrics file is written only if at least one custom metric is
\* configured in the job: never when the job has no customMetrics entry or
\* an empty customMetrics mapping.
C12_MetricsOnlyWhenConfigured ==
  files["metrics"] > 0 => bjob.customMetrics.names # {}

\* C13: across the run of one task, each artifact file (timed_events,
\* page_data, metrics, screenshot) is written at most once.
C13_ArtifactWrittenOnce == \A k \in Kinds : files[k] <= 1
\* C14: connect returns true or false and never raises; when it returned
\* false, no session is attached and task.error is the connection-error
\* message; when it returned true a session is attached and task.error is
\* as it was. While no session is attached, prepare_browser and navigate
\* make no call on the session, and no step consumes a script command or
\* records a call: a run_task entered then returns with the script whole.
C14_ConnectFailure ==
  /\ [](returned.method = "connect" =>
         /\ returned.value \in {"True", "False"}
         /\ returned.value = "False" =>
              (devtools = None /\ task_error = ErrConnect)
         /\ returned.value = "True" => devtools # None)
  /\ [][returned' = Ret("connect", "True") => task_error' = task_error]_vars
  /\ [](devtools = None /\ returned.method \in {"prepare_browser", "navigate"}
         => (sent = <<>> /\ returned.value = "None"))
  /\ [][devtools = None /\ devtools' = None =>
         (script' = script /\ trace' = trace /\ files' = files)]_vars
  /\ [](ran = "skipped" =>
         (script = orig_script /\ trace = <<>> /\ iterations = 0))

\* C14, witness: connect failed, then run_task returned at once and
\* navigate sent nothing
C14_Witness ==
  /\ task_error = ErrConnect /\ devtools = None
  /\ ran = "skipped" /\ script = ScenarioScript
  /\ returned = Ret("navigate", "None") /\ sent = <<>>
\* C15: disconnect never raises and leaves no session attached, as before
\* any connect; it calls close() exactly when a session was attached, which
\* it then detaches, and a session is attached only by a connect that
\* returned true: so close() is called at most once per successful connect,
\* and not at all by a disconnect that follows a disconnect or a failed
\* connect, or that comes before any connect. It changes nothing else.
C15_DisconnectIdempotent ==
  /\ [](returned.method = "disconnect" =>
         (returned.value = "None" /\ devtools = None))
  /\ [][returned'.method = "disconnect" =>
         /\ (sent' = <<Command("close", <<>>)>>) <=> (devtools # None)
         /\ (sent' = <<>>) <=> (devtools = None)
         /\ UNCHANGED <<task_error, script, files, trace, bpc>>]_vars
  /\ [][(devtools = None /\ devtools' # None) =>
         returned' = Ret("connect", "True")]_vars

\* C15, witness: after a failed connect, a disconnect has returned without
\* a call of close()
C15_Witness ==
  /\ returned = Ret("disconnect", "None") /\ sent = <<>>
  /\ task_error = ErrConnect /\ devtools = None

\* the sessions known to be open: the one attached, and the one the call
\* that has just ended let go of without close()
OpenSessions ==
  (IF devtools # None THEN 1 ELSE 0) + (IF dropped THEN 1 ELSE 0)

\* C16: after any sequence of connect and disconnect calls, at most one
\* session that was opened and not closed exists; a second connect without
\* a disconnect in between does not leave the earlier session open.
C16_OneSession == OpenSessions <= 1
\* the user-agent overrides the call that has just ended sent
UaOverrides ==
  SelectSeq(sent, LAMBDA c : c.method = "Network.setUserAgentOverride")

\* the string prepare_browser starts from: the job's, else the browser's
BaseUa == IF bopts.uastring THEN <<"job_ua">> ELSE navigator_ua

\* C17: when prepare_browser has run on an attached session and the job
\* supplied a uastring or navigator.userAgent was read, it applied exactly
\* one user-agent override: the job's uastring if there is one, else the
\* browser's value, followed by the version marker if and only if keepua
\* is absent or false.
C17_UaOverride ==
  (returned.method = "prepare_browser" /\ devtools # None /\ BaseUa # NoUa) =>
    /\ returned.value = "None"
    /\ Len(UaOverrides) = 1
    /\ UaOverrides[1].param =
         (IF bopts.keepua = "true" THEN BaseUa ELSE Append(BaseUa, Marker))

\* C17, witness: with keepua false and no uastring in the job, the
\* browser's own string was applied with the marker
C17_Witness ==
  /\ returned = Ret("prepare_browser", "None")
  /\ bopts.keepua = "false" /\ ~bopts.uastring
  /\ UaOverrides =
       <<SendCommand("Network.setUserAgentOverride",
                     <<"browser_ua", Marker>>, TRUE)>>
\* the navigations run_task has sent, as the script places of their commands
Navigations ==
  [i \in DOMAIN SelectSeq(trace, LAMBDA e : e.op = "Page.navigate") |->
     SelectSeq(trace, LAMBDA e : e.op = "Page.navigate")[i].id]

\* C18: for the job with mobile emulation (width, height, dpr), no keepua,
\* no custom metrics and PNG screenshots, and the script [navigate(record
\* false), navigate(record true)]: when prepare_browser has run on the
\* attached session, both commands have run and every evaluation gave a
\* result, prepare_browser has sent one device-metrics override and one
\* user-agent override (the browser's string and the version marker), the
\* two navigations were sent in script order, screen.png, timed_events and
\* page_data were each written once and metrics and screen.jpg never; the
\* end of run_task adds nothing, and task.error is changed by no step but
\* a connect.
C18_Scenario ==
  /\ []((/\ bopts = ScenarioOptions /\ bjob = ScenarioJob
          /\ orig_script = ScenarioScript
          /\ returned = Ret("prepare_browser", "None") /\ navigator_ua # NoUa
          /\ bpc = "L78" /\ iterations = 2
          /\ user_timing = "value" /\ page_data = "value")
         => /\ sent =
                 <<SendCommand("Emulation.setDeviceMetricsOverride",
                               <<"width", "height", "dpr">>, TRUE),
                   SendCommand("Emulation.setVisibleSize",
                               <<"width", "height">>, TRUE),
                   SendCommand("Network.setUserAgentOverride",
                               <<"browser_ua", Marker>>, TRUE)>>
            /\ Navigations = <<1, 2>>
            /\ files = [k \in Kinds |->
                          IF k \in {"screen.png", "timed_events", "page_data"}
                          THEN 1 ELSE 0])
  /\ [][(bpc = "L78" /\ bpc' = "idle") =>
         UNCHANGED <<files, trace, sent, task_error>>]_vars
  /\ [][returned'.method # "connect" => task_error' = task_error]_vars

\* C18, witness: the scenario has run to the end of its second command
\* after one successful connect, and task.error is absent
C18_Witness ==
  /\ returned = Ret("prepare_browser", "None") /\ Len(sent) = 3
  /\ bpc = "L78" /\ iterations = 2 /\ script = <<>>
  /\ user_timing = "value" /\ page_data = "value"
  /\ files["screen.png"] = 1 /\ task_error = None
\* a call of the current run attempt that ran the test
RunInvoked == InCalls("run_task") \/ InCalls("run_lighthouse_test")

\* C19: when get_browser returns no browser, run_single_test sets
\* task.error to the invalid-browser message and returns having called
\* nothing else: no prepare, launch, run, stop or clear_profile; when
\* shaper.configure returns false, task.error is set to the shaping message
\* and the attempt goes to its teardown, so that an attempt that carries
\* either message has called neither run_task nor run_lighthouse_test.
C19_NoRunAfterFailure ==
  /\ [][(rpc = "L107" /\ rpc' = "none") =>
         (task'.error = ErrInvalidBrowser /\ calls' = <<"get_browser">>)]_vars
  /\ [][(rpc = "L112" /\ rpc' = "L128") => task'.error = ErrShaping]_vars
  /\ []((attempt # "none" /\ task.error = ErrInvalidBrowser) =>
         calls = <<"get_browser">>)
  /\ []((attempt # "none" /\ task.error = ErrShaping) =>
         (~RunInvoked /\ InCalls("configure")))
  /\ [](RunInvoked => \E i \in DOMAIN calls :
           /\ i > 1 /\ calls[i - 1] = "configure"
           /\ calls[i] \in {"run_task", "run_lighthouse_test"})

\* C19, witness: shaping could not be configured, and the attempt ended
\* after its teardown without a run
C19_Witness ==
  /\ attempt = "left" /\ task.error = ErrShaping
  /\ ~RunInvoked /\ InCalls("reset") /\ InCalls("stop")
\* C20: browser.launch is never called while a browser launched by an
\* earlier run attempt has not been stopped.
C20_NoOverlap ==
  [][(rpc = "L111" /\ calls' # calls) => ~launched]_vars
\* C21: the watchdog file is touched only if one is configured; and when one
\* is, alive() has been called in every iteration of the outer loop by the
\* time a job has been obtained (line 58) and by the time the iteration
\* ends without an exception (line 100), the iterations that only polled
\* and slept included.
C21_RefreshedOnEveryPoll ==
  /\ refreshed => options_alive
  /\ (options_alive /\ pc \in {"L58", "L100"} /\ exc_seen = "none")
       => refreshed
\* the sites of a run attempt whose exception reaches the handler of lines
\* 73-80, and those whose exception is caught in run_single_test
EscapingSites == {"run_single_test", "running_another_test"}

\* C22: when the task is about to be uploaded (line 81) and an exception
\* was raised in its run attempts, task.error is of the unhandled-exception
\* kind: 'running test' if it was raised by prepare, launch, configure or
\* the notification of the secondary run, 'in test run' if it was raised
\* by run_task or run_lighthouse_test; it is never absent.
C22_ExceptionRecorded ==
  pc = "L81" =>
    /\ exc_seen \in EscapingSites => task.error = ErrRunning
    /\ exc_seen \in {"run_task", "run_lighthouse_test"} =>
         task.error = ErrTestRun
    /\ exc_seen # "none" => task.error # None

\* C22, witness: launch raised, and the task is about to be uploaded with
\* the error on it
C22_Witness ==
  /\ pc = "L81" /\ exc_seen = "run_single_test"
  /\ calls = <<"get_browser", "prepare", "launch">>
  /\ task.error = ErrRunning
\* a run attempt that obtained a browser has returned, and no exception has
\* left a run attempt of this task or its notification
AttemptCompleted ==
  /\ attempt = "left" /\ pc \in {"L65", "L81"}
  /\ InCalls("prepare")
  /\ exc_seen \notin EscapingSites

\* the calls of a completed attempt, given whether configure returned true
ExpectedCalls(configured) ==
  <<"get_browser", "prepare", "launch", "configure">>
    \o (IF configured
        THEN <<IF task.running_lighthouse
               THEN "run_lighthouse_test" ELSE "run_task">>
        ELSE <<>>)
    \o <<"reset", "stop">>
    \o (IF task.cached \/ job.fvonly THEN <<"clear_profile">> ELSE <<>>)

\* C23: in every run attempt that obtained a browser and returned, the
\* calls were prepare, launch, configure, then run_task or
\* run_lighthouse_test (the one task.running_lighthouse names, and only if
\* configure returned true), reset, stop, and then clear_profile if and
\* only if task.cached or job.fvonly.
C23_CallOrder ==
  AttemptCompleted =>
    /\ calls \in {ExpectedCalls(TRUE), ExpectedCalls(FALSE)}
    /\ (calls = ExpectedCalls(FALSE)) <=> (task.error = ErrShaping)

\* C23, witness: a first-view-only job's uncached task has run, and its
\* profile was deleted after the stop
C23_Witness ==
  /\ AttemptCompleted /\ job.fvonly /\ ~task.cached
  /\ calls = <<"get_browser", "prepare", "launch", "configure", "run_task",
               "reset", "stop", "clear_profile">>
\* the emulation overrides the call that has just ended sent
EmulationOverrides ==
  SelectSeq(sent, LAMBDA c : c.method \in {"Emulation.setDeviceMetricsOverride",
                                           "Emulation.setVisibleSize"})

\* C24: prepare_browser sends the device-metrics override and then the
\* visible-size override, both with wait=true and before anything else it
\* sends, if and only if a session is attached, the job's mobile is true
\* and width, height and dpr are all there; otherwise it sends neither,
\* and with no session attached it sends nothing at all.
C24_MobileEmulation ==
  returned.method = "prepare_browser" =>
    /\ devtools = None => sent = <<>>
    /\ IF devtools # None /\ bopts.mobile = "true"
          /\ bopts.dims = {"width", "height", "dpr"}
       THEN /\ Len(sent) >= 2
            /\ sent[1] = SendCommand("Emulation.setDeviceMetricsOverride",
                                      <<"width", "height", "dpr">>, TRUE)
            /\ sent[2] = SendCommand("Emulation.setVisibleSize",
                                      <<"width", "height">>, TRUE)
            /\ Len(EmulationOverrides) = 2
       ELSE EmulationOverrides = <<>>

\* C24, witness: the job asks for mobile emulation but gives no dpr, and
\* only the user-agent override was sent
C24_Witness ==
  /\ returned = Ret("prepare_browser", "None") /\ devtools # None
  /\ bopts.mobile = "true" /\ bopts.dims = {"width", "height"}
  /\ Len(sent) = 1 /\ EmulationOverrides = <<>>

\* C25: with a session attached, prepare_browser never raises, whatever
\* the job's uastring and keepua and whatever navigator.userAgent gave; and
\* when no user-agent string was resolved it sends no user-agent override.
C25_PrepareNeverRaises ==
  (returned.method = "prepare_browser" /\ devtools # None) =>
    /\ returned.value = "None"
    /\ BaseUa = NoUa => UaOverrides = <<>>
\* the task at hand is past the place of the standard run (lines 63-64)
PastStandardRun == pc \in {"L65", "L69", "L70", "L81", "L83"}

\* the standard attempt of the task at hand is in progress
InStandardAttempt == pc = "L64" /\ ret = "L65"

\* C26: a task of a job of type 'lighthouse' never gets the standard run:
\* it gets at most one run attempt, the Lighthouse one, made only when the
\* four conditions held, and it is uploaded with no attempt when they did
\* not.  A task of any other job gets the standard run exactly once, with
\* running_lighthouse false throughout, and before any Lighthouse run.
C26_RunsByJobType ==
  TaskAtHand =>
    IF job.type = "lighthouse"
    THEN /\ std_runs = 0
         /\ lh_runs <= 1
         /\ lh_runs = 1 => FourConditions
         /\ (pc = "L83" /\ err_at_gate # "unreached" /\ ~FourConditions)
              => std_runs + lh_runs = 0
    ELSE /\ std_runs <= 1
         /\ PastStandardRun => std_runs = 1
         /\ pc = "L64" => std_runs = 1
         /\ lh_runs >= 1 => std_runs = 1
         /\ InStandardAttempt =>
              /\ ~task.running_lighthouse
              /\ lh_runs = 0
              /\ ~InCalls("run_lighthouse_test")

\* C26, witness: a task of a 'lighthouse' job is about to be uploaded after
\* its only attempt, the Lighthouse one
C26_Witness ==
  /\ pc = "L83" /\ job.type = "lighthouse"
  /\ std_runs = 0 /\ lh_runs = 1 /\ InCalls("run_lighthouse_test")
====
